---- MODULE Spec2Model ----
(***************************************************************************)
(* A model of package hotenv (src/hotenv/hotenv.go): a process-wide,       *)
(* hot-reloading key/value store backed by a .env file.                    *)
(*                                                                         *)
(* Strings are sequences of one-character strings, so that the parser of   *)
(* loadEnvFile is computed character by character as the code does.        *)
(* A path is the sequence of its components ("" is the empty sequence).    *)
(* An optional value (a nil-able atomic.Value, a variadic default, a nil   *)
(* *time.Timer) is a sequence of length 0 or 1.                            *)
(***************************************************************************)
EXTENDS Integers, Sequences, FiniteSets, Bags, TLC

(***************************************************************************)
(* Bounds of the model.                                                    *)
(***************************************************************************)
\* pending fsnotify events the watch loop has not yet received
MaxEvents == 1
\* reload callbacks (timer goroutines) that run at the same time
MaxCallbacks == 2
\* the granularity of the clock: one Tick is this many milliseconds
TickMs == 400
\* the burst counter of the debounce history saturates here
MaxBurst == 2
\* timers the runtime can hold armed at the same time
MaxTimers == 2
\* lines of the files the parser is run on
MaxLines == 3

(***************************************************************************)
(* Program constants.                                                      *)
(***************************************************************************)
\* defaultDebounce = 800 * time.Millisecond, in milliseconds
defaultDebounce == 800

\* defaultPath = "/app/secrets/.env"
BuiltinDefaultPath == <<"app", "secrets", ".env">>

(***************************************************************************)
(* strings: the functions of package strings that loadEnvFile uses.        *)
(***************************************************************************)
IsSpace(ch) == ch \in {" ", "\t", "\r", "\n"}

RECURSIVE TrimLeft(_)
TrimLeft(s) == IF s # <<>> /\ IsSpace(Head(s)) THEN TrimLeft(Tail(s)) ELSE s

RECURSIVE TrimRight(_)
TrimRight(s) ==
    IF s # <<>> /\ IsSpace(s[Len(s)])
    THEN TrimRight(SubSeq(s, 1, Len(s) - 1))
    ELSE s

TrimSpace(s) == TrimRight(TrimLeft(s))

HasPrefix(s, p) == Len(s) >= Len(p) /\ SubSeq(s, 1, Len(p)) = p

HasSuffix(s, p) == Len(s) >= Len(p) /\ SubSeq(s, Len(s) - Len(p) + 1, Len(s)) = p

TrimPrefix(s, p) == IF HasPrefix(s, p) THEN SubSeq(s, Len(p) + 1, Len(s)) ELSE s

TrimSuffix(s, p) == IF HasSuffix(s, p) THEN SubSeq(s, 1, Len(s) - Len(p)) ELSE s

\* the index of the first ch in s, 0 when there is none
Index(s, ch) ==
    IF \E i \in 1..Len(s) : s[i] = ch
    THEN CHOOSE i \in 1..Len(s) : s[i] = ch /\ \A j \in 1..(i - 1) : s[j] # ch
    ELSE 0

\* strings.SplitN(s, sep, 2) for a one-character sep
SplitN2(s, sep) ==
    LET i == Index(s, sep)
    IN  IF i = 0 THEN <<s>>
        ELSE <<SubSeq(s, 1, i - 1), SubSeq(s, i + 1, Len(s))>>

(***************************************************************************)
(* config{m map[string]string}: a map is a function on its keys; reading   *)
(* a missing key gives "", as in Go.                                       *)
(***************************************************************************)
EmptyMap == [k \in {} |-> <<>>]

MapGet(m, k) == IF k \in DOMAIN m THEN m[k] ELSE <<>>

MapPut(m, k, v) == [x \in (DOMAIN m) \cup {k} |-> IF x = k THEN v ELSE m[x]]

config(m) == [m |-> m]

(***************************************************************************)
(* loadEnvFile: the scan loop, one line at a time.                         *)
(***************************************************************************)
NoQuote == "NUL"

IsQuote(ch) == ch = "'" \/ ch = "\""

ScanInit == [out |-> EmptyMap, key |-> <<>>, value |-> <<>>,
             inMultiline |-> FALSE, quote |-> NoQuote]

\* a scan of a line in normal state that strips quotes from a value of any length
ScanNormalStripsLoneQuote(st, line) ==
    LET trim == TrimSpace(line)
        kv == SplitN2(trim, "=")
        key == TrimSpace(kv[1])
        value == TrimSpace(kv[2])
        start == value[1]
        end == value[Len(value)]
    IN  IF trim = <<>> \/ HasPrefix(trim, <<"#">>) THEN st
        ELSE IF Len(kv) # 2 THEN st
        ELSE IF Len(value) >= 1 /\ IsQuote(start) /\ end = start
        THEN [st EXCEPT !.out = MapPut(st.out, key,
                                  TrimSuffix(TrimPrefix(value, <<start>>), <<start>>)),
                        !.key = <<>>, !.value = <<>>]
        ELSE IF Len(value) >= 2 /\ IsQuote(start) /\ end # start
        THEN [st EXCEPT !.inMultiline = TRUE, !.quote = start, !.key = key,
                        !.value = TrimPrefix(value, <<start>>) \o <<"\n">>]
        ELSE [st EXCEPT !.out = MapPut(st.out, key, value),
                        !.key = <<>>, !.value = <<>>]

ScanNormal(st, line) ==
    LET trim == TrimSpace(line)
        kv == SplitN2(trim, "=")
        key == TrimSpace(kv[1])
        value == TrimSpace(kv[2])
        start == value[1]
        end == value[Len(value)]
    IN  IF trim = <<>> \/ HasPrefix(trim, <<"#">>) THEN st
        ELSE IF Len(kv) # 2 THEN st
        ELSE IF Len(value) >= 2 /\ IsQuote(start) /\ end = start
        THEN [st EXCEPT !.out = MapPut(st.out, key,
                                  TrimSuffix(TrimPrefix(value, <<start>>), <<start>>)),
                        !.key = <<>>, !.value = <<>>]
        ELSE IF Len(value) >= 2 /\ IsQuote(start) /\ end # start
        THEN [st EXCEPT !.inMultiline = TRUE, !.quote = start, !.key = key,
                        !.value = TrimPrefix(value, <<start>>) \o <<"\n">>]
        ELSE [st EXCEPT !.out = MapPut(st.out, key, value),
                        !.key = <<>>, !.value = <<>>]

ScanMultiline(st, line) ==
    IF HasSuffix(line, <<st.quote>>)
    THEN [st EXCEPT !.out = MapPut(st.out, st.key,
                              st.value \o TrimSuffix(line, <<st.quote>>)),
                    !.inMultiline = FALSE, !.key = <<>>, !.value = <<>>]
    ELSE [st EXCEPT !.value = st.value \o line \o <<"\n">>]

ScanLine(st, line) ==
    IF ~st.inMultiline THEN ScanNormal(st, line) ELSE ScanMultiline(st, line)

RECURSIVE ScanLines(_, _)
ScanLines(st, lines) ==
    IF lines = <<>> THEN st ELSE ScanLines(ScanLine(st, Head(lines)), Tail(lines))

\* the (config, error) pair loadEnvFile returns
LoadResult(m, err) == [c |-> config(m), err |-> err]

(***************************************************************************)
(* The file system the program runs on.  A file is absent or holds lines.  *)
(* A read of a file scans `n` of its lines before sc.Scan() returns false: *)
(* all of them (sc.Err() = nil), or fewer (sc.Err() # nil).                *)
(***************************************************************************)
NoFile == [exists |-> FALSE, lines |-> <<>>]

File(lines) == [exists |-> TRUE, lines |-> lines]

Reads(file) == 0..Len(file.lines)

\* a read that scans every line
FullRead(file) == Len(file.lines)

\* a loadEnvFile that drops the scanner's error
loadEnvFileIgnoringScanErr(file, n) ==
    IF ~file.exists
    THEN LoadResult(EmptyMap, TRUE)
    ELSE LoadResult(ScanLines(ScanInit, SubSeq(file.lines, 1, n)).out, FALSE)

\* a loadEnvFile that stores the value it is still collecting when the input ends
loadEnvFileFlushing(file, n) ==
    LET st == ScanLines(ScanInit, SubSeq(file.lines, 1, n))
    IN  IF ~file.exists
        THEN LoadResult(EmptyMap, TRUE)
        ELSE LoadResult(IF st.inMultiline THEN MapPut(st.out, st.key, st.value)
                        ELSE st.out,
                        n < Len(file.lines))

\* loadEnvFile (lines 182-246) on a read that scans n lines
loadEnvFile(file, n) ==
    IF ~file.exists
    THEN LoadResult(EmptyMap, TRUE)
    ELSE LoadResult(ScanLines(ScanInit, SubSeq(file.lines, 1, n)).out,
                    n < Len(file.lines))

\* B="1"
FileOne == File(<< <<"B", "=", "\"", "1", "\"">> >>)

\* A=2
\* B=
FileTwo == File(<< <<"A", "=", "2">>, <<"B", "=">> >>)

Contents == {FileOne, FileTwo}

\* what loadEnvFile returns on each file the file system can hold, for each read
Loaded == [file \in Contents \cup {NoFile} |->
              [n \in Reads(file) |-> loadEnvFile(file, n)]]

\* loadEnvFile on a file and a read: looked up when tabulated, computed otherwise
Load(file, n) == IF file \in DOMAIN Loaded THEN Loaded[file][n] ELSE loadEnvFile(file, n)

\* lines that exercise each case of the parser: blank, comment, no "=", plain,
\* padded, two "=", quoted, empty quoted, a lone quote, empty value, empty key,
\* openings of a multi-line value, and lines that close one or do not
SampleLines ==
    { <<>>,
      <<" ", "#", "k", "=", "v">>,
      <<"k">>,
      <<"k", "=", "v">>,
      <<"\t", "k", " ", "=", " ", "w", " ">>,
      <<"k", "=", "a", "=", "b">>,
      <<"k", "=", "\"", "v", "\"">>,
      <<"k", "=", "'", "'">>,
      <<"k", "=", "\"">>,
      <<"k", "=">>,
      <<"=", "v">>,
      <<"j", "=", "\"", "a">>,
      <<"k", "=", " ", "'", "a", "\"">>,
      <<"b", "\"">>,
      <<"b", "\"", " ">>,
      <<"k", "=", "c", "'">> }

RECURSIVE SeqsUpTo(_, _)
\* the sequences of at most n elements of S
SeqsUpTo(S, n) ==
    IF n = 0 THEN {<<>>}
    ELSE LET shorter == SeqsUpTo(S, n - 1)
         IN  shorter \cup {Append(q, x) : q \in shorter, x \in S}

\* the files the parser is run on
ParseInputs == {File(lines) : lines \in SeqsUpTo(SampleLines, MaxLines)}

PathA == <<"etc", "a.env">>

PathB == <<"etc", "b.env">>

NoPath == <<>>

Paths == {BuiltinDefaultPath, PathA, PathB}

\* filepath.Dir
Dir(path) == IF path = <<>> THEN <<".">> ELSE SubSeq(path, 1, Len(path) - 1)

\* the keys and defaults callers ask for, and what the process environment holds
KeyA == <<"A">>

KeyB == <<"B">>

Keys == {KeyA, KeyB}

Defaults == {<<>>, << <<"d">> >>}

\* the process environment of the keys: B=e, A unset
ProcessEnv == [k \in Keys |-> IF k = KeyB THEN <<"e">> ELSE <<>>]

\* the goroutines that call Init and Getenv
Callers == {"c1", "c2"}

\* fsnotify.Write|fsnotify.Create|fsnotify.Remove|fsnotify.Rename|fsnotify.Chmod
QualifyingOps == {"Write", "Create", "Remove", "Rename", "Chmod"}

TimerIds == 1..MaxTimers

Min(a, b) == IF a < b THEN a ELSE b

Max(a, b) == IF a > b THEN a ELSE b

VARIABLES
    \* the environment
    fs,                 \* the file at each path
    envSecretsFile,     \* os.Getenv("SECRETS_FILE")
    envVars,            \* os.Getenv(key) for the other keys
    \* package-level state (hotenv.go lines 21-34)
    cfg,                \* atomic.Value: <<>> before the first Store, else <<config>>
    initOnce,           \* sync.Once: "fresh", "running", "done"
    stopOnce,           \* sync.Once: "fresh", "done"
    cancelFunc,         \* FALSE is nil
    ctxDone,            \* the watch loop's context is cancelled
    defaultPath,
    optFallbackToProcessEnv,
    \* the callers of Init and Getenv
    pc,                 \* where each caller is
    loc,                \* its arguments and locals
    \* goroutine watchAndReload
    wpc,                \* "none" (not launched), "newWatcher", "add", "select", "exited"
    filePath,           \* its filePath argument
    watching,           \* the directory the fsnotify watcher has added: <<>> or <<dir>>
    events,             \* w.Events: the ops not yet received
    timer,              \* var timer *time.Timer: <<>> is nil, else <<id>>
    heap,               \* the runtime's armed timers: a set of [id, rem]
    callbacks,          \* the running time.AfterFunc callbacks: how many have not
                        \* called loadEnvFile yet, and the bag of what the others loaded
    \* history
    sinceTrigger,       \* ms since trigger() last ran, up to defaultDebounce
    lastFireElapsed,    \* sinceTrigger when a timer last fired
    burstN,             \* trigger() calls of the current burst, up to MaxBurst
    burstFires,         \* timers that fired since the burst began
    initLoads,          \* loadEnvFile calls of ensureStarted, up to 2
    launches,           \* go watchAndReload statements executed, up to 2
    firstCall,          \* <<>> or <<[arg, env, wdp]>>: the argument of the first start,
                        \* SECRETS_FILE and wdpLast when it began
    initErr,            \* the initial load's error: "none" yet, "nil", "err"
    wdpLast,            \* the last non-empty path given to WithDefaultPath: <<>> or <<path>>
    lastReload,         \* how the last finished reload ended: "none", "failed", "stored",
                        \* or "storedCancelled" when it stored after the cancellation
    changeReported,     \* the last change of a file was reported to the subscribed watcher
    stopAfterStart      \* Stop() was called after ensureStarted had returned

envv == <<fs, envSecretsFile, envVars>>
pkgv == <<cfg, initOnce, stopOnce, cancelFunc, ctxDone, defaultPath,
          optFallbackToProcessEnv>>
callv == <<pc, loc>>
watchv == <<wpc, filePath, watching, events>>
timerv == <<timer, heap, callbacks>>
histv == <<sinceTrigger, lastFireElapsed, burstN, burstFires, initLoads, launches,
           firstCall, initErr, wdpLast, lastReload, changeReported, stopAfterStart>>
vars == <<envv, pkgv, callv, watchv, timerv, histv>>

IdleLoc == [op |-> "none", path |-> NoPath, key |-> <<>>, def |-> <<>>,
            res |-> LoadResult(EmptyMap, FALSE), ret |-> <<>>]

\* the state after package initialisation, with SECRETS_FILE one of `secrets`
\* the state of a fresh process: SECRETS_FILE is one of secrets and a.env one of files
InitFrom(secrets, files) ==
    /\ fs \in {[p \in Paths |-> IF p = PathA THEN f
                                 ELSE IF p = PathB THEN FileTwo ELSE NoFile] :
               f \in files}
    /\ envSecretsFile \in secrets
    /\ envVars = ProcessEnv
    /\ cfg = <<>>
    /\ initOnce = "fresh"
    /\ stopOnce = "fresh"
    /\ cancelFunc = FALSE
    /\ ctxDone = FALSE
    /\ defaultPath = BuiltinDefaultPath
    /\ optFallbackToProcessEnv = TRUE
    /\ pc = [c \in Callers |-> "idle"]
    /\ loc = [c \in Callers |-> IdleLoc]
    /\ wpc = "none"
    /\ filePath = NoPath
    /\ watching = <<>>
    /\ events = <<>>
    /\ timer = <<>>
    /\ heap = {}
    /\ callbacks = [loading |-> 0, loaded |-> EmptyBag]
    /\ sinceTrigger = defaultDebounce
    /\ lastFireElapsed = defaultDebounce
    /\ burstN = 0
    /\ burstFires = 0
    /\ initLoads = 0
    /\ launches = 0
    /\ firstCall = <<>>
    /\ initErr = "none"
    /\ wdpLast = <<>>
    /\ lastReload = "none"
    /\ changeReported = FALSE
    /\ stopAfterStart = FALSE

InitWith(secrets) == InitFrom(secrets, {FileOne})

(***************************************************************************)
(* Public API and ensureStarted.                                           *)
(***************************************************************************)
\* the file at a path
FileAt(path) == IF path \in DOMAIN fs THEN fs[path] ELSE NoFile

\* os.Getenv(key)
OsGetenv(key) == IF key \in DOMAIN envVars THEN envVars[key] ELSE <<>>

\* a get that takes the file's value whenever the key is in the file, empty or not
getPresentWins(key) ==
    IF cfg # <<>> /\ key \in DOMAIN cfg[1].m THEN cfg[1].m[key]
    ELSE IF optFallbackToProcessEnv /\ OsGetenv(key) # <<>> THEN OsGetenv(key)
    ELSE <<>>

\* get (lines 111-125)
get(key) ==
    LET v == MapGet(cfg[1].m, key)
    IN  IF cfg # <<>> /\ v # <<>> THEN v
        ELSE IF optFallbackToProcessEnv /\ OsGetenv(key) # <<>> THEN OsGetenv(key)
        ELSE <<>>

\* what Getenv returns after ensureStarted (lines 42-46)
GetenvReturn(key, def) ==
    LET v == get(key)
    IN  IF v = <<>> /\ Len(def) > 0 THEN def[1] ELSE v

\* a path resolution that does not read SECRETS_FILE
ResolvePathNoEnv(path) == IF path = NoPath THEN defaultPath ELSE path

\* the path ensureStarted loads and watches (lines 90-96)
ResolvePath(path) ==
    IF path = NoPath
    THEN IF envSecretsFile # NoPath THEN envSecretsFile ELSE defaultPath
    ELSE path

\* an initial load that stores whatever loadEnvFile returned
InitialConfigPartial(res) == res.c

\* what the initial load stores (lines 98-103)
InitialConfig(res) == IF ~res.err THEN res.c ELSE config(EmptyMap)

\* a Once that runs its function whenever it is not running it
OnceRunsAgain(once) == once # "running"

\* sync.Once.Do runs its function for the first caller only
OnceRuns(once) == once = "fresh"

\* a Once that lets a second caller through while the function is still running
OnceReturnsEarly(once) == once # "fresh"

\* sync.Once.Do returns, without running its function, once the function has returned
OnceReturns(once) == once = "done"

\* where a caller goes when ensureStarted returns
AfterEnsure(call) == IF call.op = "Init" THEN "idle" ELSE "get"

\* its locals then: those of ensureStarted are gone
LocAfterEnsure(call) ==
    IF call.op = "Init" THEN IdleLoc
    ELSE [IdleLoc EXCEPT !.op = call.op, !.key = call.key, !.def = call.def]

\* ensureStarted(path), up to initOnce.Do (lines 88-96): the first caller resolves
\* the path and goes on to load; a caller that finds the function running waits;
\* a caller that finds it done returns
ensureStarted(c, call) ==
    /\ pc[c] = "idle"
    /\ IF OnceRuns(initOnce)
       THEN /\ initOnce' = "running"
            /\ pc' = [pc EXCEPT ![c] = "initLoad"]
            /\ loc' = [loc EXCEPT ![c] = [call EXCEPT !.path = ResolvePath(call.path)]]
            /\ firstCall' = IF firstCall = <<>>
                            THEN << [arg |-> call.path, env |-> envSecretsFile,
                                     wdp |-> wdpLast] >>
                            ELSE firstCall
       ELSE /\ pc' = [pc EXCEPT ![c] = IF OnceReturns(initOnce)
                                       THEN AfterEnsure(call) ELSE "ensure"]
            /\ loc' = [loc EXCEPT ![c] = IF OnceReturns(initOnce)
                                         THEN LocAfterEnsure(call) ELSE call]
            /\ UNCHANGED <<initOnce, firstCall>>
    /\ UNCHANGED <<envv, cfg, stopOnce, cancelFunc, ctxDone, defaultPath,
                   optFallbackToProcessEnv, watchv, timerv, sinceTrigger,
                   lastFireElapsed, burstN, burstFires, initLoads, launches, initErr,
                   wdpLast, lastReload, changeReported, stopAfterStart>>

\* Init(path) (lines 52-54)
InitCall(c, path) ==
    ensureStarted(c, [IdleLoc EXCEPT !.op = "Init", !.path = path])

\* Getenv(key, def...) line 41
GetenvCall(c, key, def) ==
    ensureStarted(c, [IdleLoc EXCEPT !.op = "Getenv", !.key = key, !.def = def])

\* a caller that waited in initOnce.Do returns from ensureStarted
OnceWake(c) ==
    /\ pc[c] = "ensure"
    /\ OnceReturns(initOnce)
    /\ pc' = [pc EXCEPT ![c] = AfterEnsure(loc[c])]
    /\ loc' = [loc EXCEPT ![c] = LocAfterEnsure(loc[c])]
    /\ UNCHANGED <<envv, pkgv, watchv, timerv, histv>>

\* the initial load (line 98), which scans n lines
InitLoad(c, n) ==
    /\ pc[c] = "initLoad"
    /\ n \in Reads(FileAt(loc[c].path))
    /\ loc' = [loc EXCEPT ![c].res = Load(FileAt(loc[c].path), n)]
    /\ initErr' = IF loc'[c].res.err THEN "err" ELSE "nil"
    /\ pc' = [pc EXCEPT ![c] = "initFinish"]
    /\ initLoads' = Min(initLoads + 1, 2)
    /\ UNCHANGED <<envv, pkgv, watchv, timerv, sinceTrigger, lastFireElapsed, burstN,
                   burstFires, launches, firstCall, wdpLast, lastReload, changeReported, stopAfterStart>>

\* the store of the initial snapshot and the launch of the watch loop (lines 98-107)
InitFinish(c) ==
    /\ pc[c] = "initFinish"
    /\ cfg' = <<InitialConfig(loc[c].res)>>
    /\ cancelFunc' = TRUE
    /\ wpc' = "newWatcher"
    /\ filePath' = loc[c].path
    /\ launches' = Min(launches + 1, 2)
    /\ initOnce' = "done"
    /\ pc' = [pc EXCEPT ![c] = AfterEnsure(loc[c])]
    /\ loc' = [loc EXCEPT ![c] = LocAfterEnsure(loc[c])]
    /\ UNCHANGED <<envv, stopOnce, ctxDone, defaultPath, optFallbackToProcessEnv,
                   watching, events, timerv, sinceTrigger, lastFireElapsed,
                   burstN, burstFires, initLoads, firstCall, initErr, wdpLast, lastReload, changeReported, stopAfterStart>>

\* Getenv lines 42-46
Get(c) ==
    /\ pc[c] = "get"
    /\ pc' = [pc EXCEPT ![c] = "ret"]
    /\ loc' = [loc EXCEPT ![c].ret = GetenvReturn(loc[c].key, loc[c].def)]
    /\ UNCHANGED <<envv, pkgv, watchv, timerv, histv>>

\* the caller has its value
Return(c) ==
    /\ pc[c] = "ret"
    /\ pc' = [pc EXCEPT ![c] = "idle"]
    /\ loc' = [loc EXCEPT ![c] = IdleLoc]
    /\ UNCHANGED <<envv, pkgv, watchv, timerv, histv>>

\* a Stop that also resets the store to the empty snapshot
StopClearing ==
    /\ IF stopOnce = "fresh"
       THEN /\ stopOnce' = "done"
            /\ ctxDone' = (ctxDone \/ cancelFunc)
       ELSE UNCHANGED <<stopOnce, ctxDone>>
    /\ stopAfterStart' = (stopAfterStart \/ initOnce = "done")
    /\ cfg' = IF cfg # <<>> THEN <<config(EmptyMap)>> ELSE cfg
    /\ UNCHANGED <<envv, initOnce, cancelFunc, defaultPath, optFallbackToProcessEnv,
                   callv, watchv, timerv, sinceTrigger, lastFireElapsed, burstN,
                   burstFires, initLoads, launches, firstCall, initErr, wdpLast,
                   lastReload, changeReported>>

\* Stop (lines 57-63)
Stop ==
    /\ IF stopOnce = "fresh"
       THEN /\ stopOnce' = "done"
            /\ ctxDone' = (ctxDone \/ cancelFunc)
       ELSE UNCHANGED <<stopOnce, ctxDone>>
    /\ stopAfterStart' = (stopAfterStart \/ initOnce = "done")
    /\ UNCHANGED <<envv, cfg, initOnce, cancelFunc, defaultPath, optFallbackToProcessEnv,
                   callv, watchv, timerv, sinceTrigger, lastFireElapsed, burstN,
                   burstFires, initLoads, launches, firstCall, initErr, wdpLast, lastReload, changeReported>>

\* WithFallbackToProcessEnv (lines 67-69)
WithFallbackToProcessEnv(enabled) ==
    /\ optFallbackToProcessEnv' = enabled
    /\ UNCHANGED <<envv, cfg, initOnce, stopOnce, cancelFunc, ctxDone, defaultPath,
                   callv, watchv, timerv, histv>>

\* WithDefaultPath (lines 80-84)
WithDefaultPath(path) ==
    /\ defaultPath' = IF path # NoPath THEN path ELSE defaultPath
    /\ wdpLast' = IF path # NoPath THEN <<path>> ELSE wdpLast
    /\ UNCHANGED <<envv, cfg, initOnce, stopOnce, cancelFunc, ctxDone,
                   optFallbackToProcessEnv, callv, watchv, timerv, sinceTrigger,
                   lastFireElapsed, burstN, burstFires, initLoads, launches, firstCall,
                   initErr, lastReload, changeReported, stopAfterStart>>

(***************************************************************************)
(* watchAndReload, its debounce timer and the reload callbacks.            *)
(***************************************************************************)
\* fsnotify.NewWatcher (lines 130-135): it succeeds or fails
NewWatcher(ok) ==
    /\ wpc = "newWatcher"
    /\ wpc' = IF ok THEN "add" ELSE "exited"
    /\ UNCHANGED <<envv, pkgv, callv, filePath, watching, events, timerv, histv>>

\* a loop that goes on to its select although w.Add(dir) failed
WatchAddIgnoringError(ok) ==
    /\ wpc = "add"
    /\ wpc' = "select"
    /\ watching' = <<Dir(filePath)>>
    /\ UNCHANGED <<envv, pkgv, callv, filePath, events, timerv, histv>>

\* w.Add(dir) (lines 137-140): it succeeds, or fails and the deferred w.Close() runs
WatchAdd(ok) ==
    /\ wpc = "add"
    /\ wpc' = IF ok THEN "select" ELSE "exited"
    /\ watching' = IF ok THEN <<Dir(filePath)>> ELSE <<>>
    /\ UNCHANGED <<envv, pkgv, callv, filePath, events, timerv, histv>>

\* a loop that stops the pending timer when it returns
SelectDoneStoppingTimer ==
    /\ wpc = "select"
    /\ ctxDone
    /\ wpc' = "exited"
    /\ watching' = <<>>
    /\ events' = <<>>
    /\ heap' = {t \in heap : timer # <<t.id>>}
    /\ UNCHANGED <<envv, pkgv, callv, filePath, timer, callbacks, histv>>

\* case <-ctx.Done() (lines 162-163), and the deferred w.Close()
SelectDone ==
    /\ wpc = "select"
    /\ ctxDone
    /\ wpc' = "exited"
    /\ watching' = <<>>
    /\ events' = <<>>
    /\ UNCHANGED <<envv, pkgv, callv, filePath, timerv, histv>>

TimerIdsOf(h) == {t.id : t \in h}

\* a trigger that arms a new timer without stopping the pending one
TimerStopForgotten(h, tm) == h

\* timer.Stop(): an armed timer leaves the runtime's heap; a fired one is left alone
TimerStop(h, tm) == IF tm # <<>> THEN {t \in h : t.id # tm[1]} ELSE h

\* the timer time.AfterFunc(d, f) arms: the first id the runtime has free
AfterFunc(h, d) ==
    [id |-> CHOOSE i \in TimerIds \ TimerIdsOf(h) :
                \A j \in TimerIds \ TimerIdsOf(h) : i <= j,
     rem |-> d]

\* the timer variable points at a timer that is armed and has not fired
TimerPending == timer # <<>> /\ timer[1] \in TimerIdsOf(heap)

\* trigger (lines 144-158), called with debounce = defaultDebounce (line 107)
trigger ==
    LET stopped == TimerStop(heap, timer)
        t == AfterFunc(stopped, defaultDebounce)
    IN  /\ TimerIds \ TimerIdsOf(stopped) # {}
        /\ heap' = stopped \cup {t}
        /\ timer' = <<t.id>>
        /\ sinceTrigger' = 0
        /\ burstN' = IF TimerPending THEN Min(burstN + 1, MaxBurst) ELSE 1
        /\ burstFires' = IF TimerPending THEN burstFires ELSE 0

\* case ev, ok := <-w.Events (lines 164-171)
SelectEvent ==
    /\ wpc = "select"
    /\ events # <<>>
    /\ events' = Tail(events)
    /\ IF Head(events) \in QualifyingOps
       THEN trigger
       ELSE UNCHANGED <<timer, heap, sinceTrigger, burstN, burstFires>>
    /\ UNCHANGED <<envv, pkgv, callv, wpc, filePath, watching, callbacks,
                   lastFireElapsed, initLoads, launches, firstCall, initErr, wdpLast, lastReload, changeReported, stopAfterStart>>

\* case err := <-w.Errors (lines 172-173): the error is logged and the loop goes on
SelectError ==
    /\ wpc = "select"
    /\ watching # <<>>
    /\ UNCHANGED vars

\* the reload callbacks that are running
Running == callbacks.loading + BagCardinality(callbacks.loaded)

\* the runtime fires an armed timer whose duration has passed: its function
\* starts in its own goroutine
TimerFire(t) ==
    /\ t \in heap
    /\ t.rem = 0
    /\ Running < MaxCallbacks
    /\ heap' = heap \ {t}
    /\ callbacks' = [callbacks EXCEPT !.loading = @ + 1]
    /\ lastFireElapsed' = sinceTrigger
    /\ burstFires' = Min(burstFires + 1, 2)
    /\ UNCHANGED <<envv, pkgv, callv, watchv, timer, sinceTrigger, burstN, initLoads,
                   launches, firstCall, initErr, wdpLast, lastReload, changeReported, stopAfterStart>>

\* a callback's loadEnvFile(filePath) (line 151), which scans n lines
ReloadLoad(n) ==
    /\ callbacks.loading > 0
    /\ n \in Reads(FileAt(filePath))
    /\ callbacks' = [loading |-> callbacks.loading - 1,
                     loaded |-> callbacks.loaded (+)
                                SetToBag({Load(FileAt(filePath), n)})]
    /\ UNCHANGED <<envv, pkgv, callv, watchv, timer, heap, histv>>

\* a callback that stores what loadEnvFile returned whether or not it failed
ReloadFinishAlways(res) ==
    /\ res \in BagToSet(callbacks.loaded)
    /\ cfg' = <<res.c>>
    /\ callbacks' = [callbacks EXCEPT !.loaded = @ (-) SetToBag({res})]
    /\ lastReload' = IF res.err THEN "failed"
                     ELSE IF ctxDone THEN "storedCancelled" ELSE "stored"
    /\ UNCHANGED <<envv, initOnce, stopOnce, cancelFunc, ctxDone, defaultPath,
                   optFallbackToProcessEnv, callv, watchv, timer, heap, sinceTrigger,
                   lastFireElapsed, burstN, burstFires, initLoads, launches, firstCall,
                   initErr, wdpLast, changeReported, stopAfterStart>>

\* a callback that drops what it loaded when the context has been cancelled
ReloadFinishUnlessCancelled(res) ==
    /\ res \in BagToSet(callbacks.loaded)
    /\ cfg' = IF ~res.err /\ ~ctxDone THEN <<res.c>> ELSE cfg
    /\ callbacks' = [callbacks EXCEPT !.loaded = @ (-) SetToBag({res})]
    /\ lastReload' = IF res.err THEN "failed"
                     ELSE IF ctxDone THEN "storedCancelled" ELSE "stored"
    /\ UNCHANGED <<envv, initOnce, stopOnce, cancelFunc, ctxDone, defaultPath,
                   optFallbackToProcessEnv, callv, watchv, timer, heap, sinceTrigger,
                   lastFireElapsed, burstN, burstFires, initLoads, launches, firstCall,
                   initErr, wdpLast, changeReported, stopAfterStart>>

\* the rest of a callback that loaded res (lines 151-156)
ReloadFinish(res) ==
    /\ res \in BagToSet(callbacks.loaded)
    /\ cfg' = IF ~res.err THEN <<res.c>> ELSE cfg
    /\ callbacks' = [callbacks EXCEPT !.loaded = @ (-) SetToBag({res})]
    /\ lastReload' = IF res.err THEN "failed"
                     ELSE IF ctxDone THEN "storedCancelled" ELSE "stored"
    /\ UNCHANGED <<envv, initOnce, stopOnce, cancelFunc, ctxDone, defaultPath,
                   optFallbackToProcessEnv, callv, watchv, timer, heap, sinceTrigger,
                   lastFireElapsed, burstN, burstFires, initLoads, launches, firstCall,
                   initErr, wdpLast, changeReported, stopAfterStart>>

(***************************************************************************)
(* The environment: time passes and files change.                          *)
(***************************************************************************)
\* TickMs milliseconds pass
Tick ==
    /\ (\E t \in heap : t.rem > 0) \/ sinceTrigger < defaultDebounce
    /\ heap' = {[t EXCEPT !.rem = Max(0, t.rem - TickMs)] : t \in heap}
    /\ sinceTrigger' = Min(defaultDebounce, sinceTrigger + TickMs)
    /\ UNCHANGED <<envv, pkgv, callv, watchv, timer, callbacks, lastFireElapsed, burstN,
                   burstFires, initLoads, launches, firstCall, initErr, wdpLast, lastReload, changeReported, stopAfterStart>>

\* the fsnotify op of a change of a file: a file is published by moving it into
\* the directory (the atomic replace), which fsnotify reports as Create
OpOf(old, new) == IF ~new.exists THEN "Remove" ELSE "Create"

\* a file is created, replaced or removed; a watcher on its directory reports it
FsChange(p, new) ==
    /\ fs[p] # new
    /\ fs' = [fs EXCEPT ![p] = new]
    /\ IF watching = <<Dir(p)>>
       THEN /\ Len(events) < MaxEvents
            /\ events' = Append(events, OpOf(fs[p], new))
       ELSE UNCHANGED events
    /\ changeReported' = (watching = <<Dir(p)>>)
    /\ UNCHANGED <<envSecretsFile, envVars, pkgv, callv, wpc, filePath, watching,
                   timerv, sinceTrigger, lastFireElapsed, burstN, burstFires, initLoads,
                   launches, firstCall, initErr, wdpLast, lastReload, stopAfterStart>>

\* a file changes before the watch loop is launched
FsChangeEarly(p, new) == wpc = "none" /\ FsChange(p, new)

(***************************************************************************)
(* Spec: the life cycle.  Two goroutines call Init and Getenv at the same  *)
(* time, SECRETS_FILE is unset or names b.env, files change until the      *)
(* watch loop is launched and stay as they are afterwards.                 *)
(***************************************************************************)
Init == InitWith({NoPath, PathB})

Next ==
    \/ \E c \in Callers, path \in {NoPath, PathA} : InitCall(c, path)
    \/ \E c \in Callers, key \in Keys, def \in Defaults : GetenvCall(c, key, def)
    \/ \E c \in Callers : OnceWake(c)
    \/ \E c \in Callers : \E n \in Reads(FileAt(loc[c].path)) : InitLoad(c, n)
    \/ \E c \in Callers : InitFinish(c)
    \/ \E c \in Callers : Get(c)
    \/ \E c \in Callers : Return(c)
    \/ Stop
    \/ \E enabled \in BOOLEAN : WithFallbackToProcessEnv(enabled)
    \/ \E path \in {NoPath, PathB} : WithDefaultPath(path)
    \/ \E ok \in BOOLEAN : NewWatcher(ok)
    \/ \E ok \in BOOLEAN : WatchAdd(ok)
    \/ SelectDone
    \/ SelectError
    \/ \E new \in {NoFile, FileOne} : FsChangeEarly(PathA, new)

Spec == Init /\ [][Next]_vars

(***************************************************************************)
(* WatchSpec: hot reload.  SECRETS_FILE names a.env, one goroutine calls   *)
(* Init, and a.env changes at any time.                                    *)
(***************************************************************************)
WatchInit == InitWith({PathA})

\* the watch loop, its timer and its callbacks
Reloading ==
    \/ SelectDone
    \/ SelectEvent
    \/ SelectError
    \/ \E t \in heap : TimerFire(t)
    \/ \E res \in BagToSet(callbacks.loaded) : ReloadFinish(res)
    \/ Tick

WatchNext ==
    \/ InitCall("c1", NoPath)
    \/ \E n \in Reads(FileAt(loc["c1"].path)) : InitLoad("c1", n)
    \/ InitFinish("c1")
    \/ Stop
    \/ \E ok \in BOOLEAN : NewWatcher(ok)
    \/ \E ok \in BOOLEAN : WatchAdd(ok)
    \/ \E n \in Reads(FileAt(filePath)) : ReloadLoad(n)
    \/ \E new \in Contents \cup {NoFile} : FsChange(PathA, new)
    \/ Reloading

WatchSpec == WatchInit /\ [][WatchNext]_vars

(***************************************************************************)
(* ServeSpec: reads during hot reload.  As WatchSpec, with the goroutine   *)
(* calling Getenv, whose first call starts the store.                      *)
(***************************************************************************)
ServeNext ==
    \/ GetenvCall("c1", KeyA, << <<"d">> >>)
    \/ \E n \in Reads(FileAt(loc["c1"].path)) : InitLoad("c1", n)
    \/ InitFinish("c1")
    \/ Get("c1")
    \/ Return("c1")
    \/ Stop
    \/ \E ok \in BOOLEAN : NewWatcher(ok)
    \/ \E ok \in BOOLEAN : WatchAdd(ok)
    \/ \E n \in Reads(FileAt(filePath)) : ReloadLoad(n)
    \/ \E new \in Contents \cup {NoFile} : FsChange(PathA, new)
    \/ Reloading

ServeSpec == WatchInit /\ [][ServeNext]_vars

(***************************************************************************)
(* LiveSpec: the healthy run.  As WatchSpec, but the watcher is created    *)
(* and subscribed without error and every load reads the whole file.  The  *)
(* Go scheduler runs every runnable goroutine and the runtime fires every  *)
(* due timer, so each step of the program that stays enabled is taken.     *)
(***************************************************************************)
LiveNext ==
    \/ InitCall("c1", NoPath)
    \/ InitLoad("c1", FullRead(FileAt(loc["c1"].path)))
    \/ InitFinish("c1")
    \/ Stop
    \/ NewWatcher(TRUE)
    \/ WatchAdd(TRUE)
    \/ ReloadLoad(FullRead(FileAt(filePath)))
    \/ \E new \in Contents : FsChange(PathA, new)
    \/ Reloading

LiveFairness ==
    /\ WF_vars(InitLoad("c1", FullRead(FileAt(loc["c1"].path))))
    /\ WF_vars(InitFinish("c1"))
    /\ WF_vars(NewWatcher(TRUE))
    /\ WF_vars(WatchAdd(TRUE))
    /\ WF_vars(SelectDone)
    /\ WF_vars(SelectEvent)
    /\ WF_vars(\E t \in heap : TimerFire(t))
    /\ WF_vars(ReloadLoad(FullRead(FileAt(filePath))))
    /\ WF_vars(\E res \in BagToSet(callbacks.loaded) : ReloadFinish(res))
    /\ WF_vars(Tick)

LiveSpec == WatchInit /\ [][LiveNext]_vars /\ LiveFairness

(***************************************************************************)
(* ParseSpec: the parser.  SECRETS_FILE names a.env, which holds any of    *)
(* the files of ParseInputs, and Init loads it, reading all of its lines   *)
(* or stopping early on a scanner error.                                   *)
(***************************************************************************)
ParseInit == InitFrom({PathA}, ParseInputs)

ParseNext ==
    \/ InitCall("c1", NoPath)
    \/ \E n \in Reads(FileAt(loc["c1"].path)) : InitLoad("c1", n)
    \/ InitFinish("c1")

ParseSpec == ParseInit /\ [][ParseNext]_vars

(***************************************************************************)
(* Properties.                                                             *)
(***************************************************************************)
\* the four-tier lookup: the snapshot's value if non-empty, else the process
\* environment's if the fallback is enabled and it is non-empty, else the default
\* if one was given, else the empty string
LookupPolicy(snapshot, key, envValue, fallback, def) ==
    IF key \in DOMAIN snapshot /\ snapshot[key] # <<>> THEN snapshot[key]
    ELSE IF fallback /\ envValue # <<>> THEN envValue
    ELSE IF def # <<>> THEN def[1]
    ELSE <<>>

\* C1: whenever Getenv(key, default?) computes its result, the result is the value
\* of the four-tier lookup policy on the current snapshot, the process environment,
\* the fallback flag and the default; a key whose value in the file is empty is
\* resolved like an absent key.
C1_LookupPolicy ==
    [][\A c \in Callers :
          (pc[c] = "get" /\ pc'[c] = "ret")
          => loc'[c].ret = LookupPolicy(cfg[1].m, loc[c].key, OsGetenv(loc[c].key),
                                        optFallbackToProcessEnv, loc[c].def)]_vars

\* Getenv("B") returned the process environment's value although the file has B,
\* with an empty value
C1_Witness ==
    \E c \in Callers :
        /\ pc[c] = "ret"
        /\ loc[c].key = KeyB
        /\ cfg # <<>> /\ KeyB \in DOMAIN cfg[1].m /\ cfg[1].m[KeyB] = <<>>
        /\ loc[c].ret = <<"e">>

\* the snapshot a complete load of a file yields
ParseOf(file) == Loaded[file][FullRead(file)].c

\* C2: if the watched file is replaced with new readable contents while the watch
\* loop is subscribed (the change is reported to it), nothing changes afterwards
\* and Stop is never called, then the Current Reference eventually holds the parse
\* of the new contents and keeps it.
C2_HotReload ==
    \A f \in Contents :
        <>[](changeReported /\ FileAt(filePath) = f /\ stopOnce = "fresh")
        => <>[](cfg = <<ParseOf(f)>>)

\* C3: a burst of N >= 1 qualifying events, each received while the timer armed by
\* the previous one is still pending, causes exactly one reload: no callback is
\* started while the timer of the burst is pending, exactly one is started once it
\* is no longer pending, and that one starts no earlier than one debounce duration
\* after the last event of the burst was received.
C3_DebounceCoalescing ==
    /\ burstFires <= 1
    /\ TimerPending => burstFires = 0
    /\ (burstN >= 1 /\ ~TimerPending) => burstFires = 1
    /\ lastFireElapsed >= defaultDebounce
    /\ Cardinality(heap) <= 1

\* a burst of two or more events has ended in one reload
C3_Witness ==
    /\ burstN >= 2
    /\ ~TimerPending
    /\ burstFires = 1
    /\ Running >= 1

\* C4: when a reload's loadEnvFile returned an error, the callback leaves the
\* Current Reference as it was; the mapping returned with the error is not published.
C4_StaleOnFailure ==
    [][\A res \in BagToSet(callbacks.loaded) :
          (res.err /\ callbacks'.loaded = callbacks.loaded (-) SetToBag({res}))
          => cfg' = cfg]_vars

\* the last reload failed, the file has new contents since, and the snapshot
\* published by the initial load is still the current one
C4_Witness ==
    /\ lastReload = "failed"
    /\ cfg = <<ParseOf(FileOne)>>
    /\ FileAt(filePath) = FileTwo
    /\ initErr = "nil"

\* C5: under any interleaving of concurrent Init and Getenv calls there is at most
\* one initial load and at most one launch of the watch loop, exactly one of each
\* once the start has completed, and the watched path, once set, never changes.
C5_StartOnce ==
    /\ [](/\ initLoads <= 1
          /\ launches <= 1
          /\ initOnce = "done" => (initLoads = 1 /\ launches = 1))
    /\ [][filePath # NoPath => filePath' = filePath]_vars

\* the start is complete and an Init with a different path, which waited for it,
\* is about to return
C5_Witness ==
    \E c \in Callers :
        /\ pc[c] = "ensure"
        /\ loc[c].op = "Init"
        /\ loc[c].path = PathA
        /\ initOnce = "done"
        /\ filePath \notin {NoPath, PathA}
        /\ initLoads = 1
        /\ launches = 1

\* C6: whenever Stop() is called after the store has been started, the watch loop
\* eventually terminates.
C6_StopTerminates == stopAfterStart ~> (wpc = "exited")

\* C7: a Stop() call leaves the Current Reference as it was, and a Getenv that
\* reads after Stop resolves its key against that snapshot.
C7_StopKeepsSnapshot ==
    [][/\ Stop => cfg' = cfg
       /\ \A c \in Callers :
              (stopOnce = "done" /\ pc[c] = "get" /\ pc'[c] = "ret")
              => loc'[c].ret = LookupPolicy(cfg[1].m, loc[c].key, OsGetenv(loc[c].key),
                                            optFallbackToProcessEnv, loc[c].def)]_vars

\* Stop was called, the loop has exited, and Getenv("A") has returned the value of
\* the snapshot a reload published
C7_Witness ==
    /\ stopOnce = "done"
    /\ wpc = "exited"
    /\ cfg = <<ParseOf(FileTwo)>>
    /\ pc["c1"] = "ret"
    /\ loc["c1"].ret = <<"2">>

\* a mapping is the empty one or the complete parse of some contents of the file
Complete(m) == m = EmptyMap \/ \E f \in Contents : m = ParseOf(f).m

\* C8: when a Getenv reads the Current Reference it is set, and whenever it is set
\* it holds the empty mapping or the whole result of a load that read all of a file,
\* never the partial mapping of a load that failed or is in progress.
C8_CompleteSnapshots ==
    /\ \A c \in Callers : pc[c] = "get" => cfg # <<>>
    /\ cfg # <<>> => Complete(cfg[1].m)

\* Getenv("A", "d") returned the default from the complete snapshot of the old
\* file while a reload held a partial mapping with A in it
C8_Witness ==
    /\ pc["c1"] = "ret"
    /\ loc["c1"].ret = <<"d">>
    /\ cfg = <<ParseOf(FileOne)>>
    /\ \E res \in BagToSet(callbacks.loaded) : res.err /\ MapGet(res.c.m, KeyA) = <<"2">>

\* C9: when the initial loadEnvFile failed, the start stores the empty snapshot,
\* returns to its caller and launches the watch loop.
C9_InitialLoadFailure ==
    [][\A c \in Callers :
          (pc[c] = "initFinish" /\ pc'[c] # "initFinish" /\ loc[c].res.err)
          => /\ cfg' = <<config(EmptyMap)>>
             /\ pc'[c] = AfterEnsure(loc[c])
             /\ wpc' = "newWatcher"
             /\ launches' = launches + 1]_vars

\* the initial load failed and a later reload has populated the store
C9_Witness ==
    /\ initErr = "err"
    /\ initOnce = "done"
    /\ lastReload = "stored"
    /\ cfg # <<>>
    /\ cfg[1].m # EmptyMap

\* the path the documented precedence gives: the argument if non-empty, else
\* SECRETS_FILE if non-empty, else the last non-empty path given to WithDefaultPath,
\* else the built-in default
ExpectedPath(first) ==
    IF first.arg # NoPath THEN first.arg
    ELSE IF first.env # NoPath THEN first.env
    ELSE IF first.wdp # <<>> THEN first.wdp[1]
    ELSE BuiltinDefaultPath

\* C10: the path the first start loads, and the path the watch loop is given, is
\* the one the precedence gives for the first call's argument, SECRETS_FILE and
\* the default path configured when that call began.
C10_PathPrecedence ==
    firstCall # <<>> =>
        /\ \A c \in Callers :
               pc[c] \in {"initLoad", "initFinish"}
               => loc[c].path = ExpectedPath(firstCall[1])
        /\ wpc # "none" => filePath = ExpectedPath(firstCall[1])

\* the store was started with no argument and no SECRETS_FILE after
\* WithDefaultPath("etc/b.env"), and watches etc/b.env
C10_Witness ==
    /\ firstCall # <<>>
    /\ firstCall[1] = [arg |-> NoPath, env |-> NoPath, wdp |-> <<PathB>>]
    /\ wpc # "none"
    /\ filePath = PathB

\* C11: a Getenv that finds the store not started starts it with the empty path,
\* and no Getenv, whether it ran the start or waited for it, reads the Current
\* Reference or returns before the initial load has stored its snapshot.
C11_SelfInitialisingReads ==
    \A c \in Callers :
        /\ (loc[c].op = "Getenv" /\ pc[c] \in {"initLoad", "initFinish"})
           => (initOnce = "running" /\ firstCall # <<>> /\ firstCall[1].arg = NoPath)
        /\ (loc[c].op = "Getenv" /\ pc[c] \in {"get", "ret"})
           => (initOnce = "done" /\ cfg # <<>> /\ initLoads = 1)

\* of two concurrent first Getenv calls one ran the start and has its value, the
\* other waited and has not returned from ensureStarted yet
C11_Witness ==
    \E c, d \in Callers :
        /\ c # d
        /\ loc[c].op = "Getenv" /\ pc[c] = "ret"
        /\ loc[d].op = "Getenv" /\ pc[d] = "ensure"
        /\ firstCall # <<>> /\ firstCall[1].arg = NoPath

C13_SinglePendingTimer ==
    /\ [](Cardinality(heap) <= 1 /\ \A t \in heap : timer = <<t.id>>)
    /\ [][(sinceTrigger' < sinceTrigger)
           => (\E t \in heap' :
                  heap' = {t} /\ t.rem = defaultDebounce /\ timer' = <<t.id>>)]_vars
    /\ [][(callbacks'.loading > callbacks.loading)
           => (\E u \in heap : timer = <<u.id>> /\ heap' = heap \ {u})]_vars

\* a second event has replaced the pending timer, and the one timer now armed
\* still has time to run
C13_Witness ==
    /\ burstN >= 2
    /\ \E t \in heap : heap = {t} /\ t.rem > 0 /\ timer = <<t.id>>

\* C14: at any instant at most one reload callback (loadEnvFile followed by the
\* store to the Current Reference) is executing.
C14_SerializedReloads == Running <= 1

\* the watch loop is subscribed and at rest: no event waits, no timer is armed and
\* no reload callback runs
Quiescent == wpc = "select" /\ events = <<>> /\ heap = {} /\ Running = 0

\* C15: stores follow the order of the reads, so once the change events have
\* ceased and every reload callback has finished, the Current Reference holds the
\* parse of the latest contents read; when every read succeeds and the last change
\* was reported to the watcher, these are the contents the file has now.
C15_PublishesFollowFileOrder ==
    (Quiescent /\ changeReported) => cfg = <<ParseOf(FileAt(filePath))>>

\* C16: the cancellation and the exit of the watch loop leave the running reload
\* callbacks as they are, and a callback that finishes after the cancellation
\* with a successful load publishes its snapshot.
C16_CancelKeepsReload ==
    /\ [][((ctxDone' /\ ~ctxDone) \/ (wpc' = "exited" /\ wpc # "exited"))
           => callbacks' = callbacks]_vars
    /\ [][\A res \in BagToSet(callbacks.loaded) :
              (ctxDone /\ ~res.err /\ callbacks'.loaded = callbacks.loaded (-) SetToBag({res}))
              => cfg' = <<res.c>>]_vars

\* Stop cancelled the loop, the loop has exited, and a reload has since published
\* the new contents of the file
C16_Witness ==
    /\ lastReload = "storedCancelled"
    /\ wpc = "exited"
    /\ FileAt(filePath) = FileTwo
    /\ cfg = <<ParseOf(FileTwo)>>
    /\ initErr = "nil"

\* C17: once the watch loop has returned it stays returned and no timer is armed
\* any more: the timer variable is not assigned and the armed timers are among
\* those armed before; the return itself stops no timer, so one pending at the
\* exit still fires; and the Current Reference changes after the exit only when a
\* reload callback finishes.
C17_NoReloadScheduledAfterExit ==
    /\ [][wpc = "exited"
           => /\ wpc' = "exited"
              /\ timer' = timer
              /\ TimerIdsOf(heap') \subseteq TimerIdsOf(heap)
              /\ \A t \in heap' : \E u \in heap : u.id = t.id /\ t.rem <= u.rem
              /\ cfg' # cfg => Running' < Running]_vars
    /\ [][(wpc' = "exited" /\ wpc # "exited") => (heap' = heap /\ timer' = timer)]_vars

\* the loop has returned on cancellation while a timer was pending; the timer has
\* not been stopped and is now due
C17_Witness ==
    /\ wpc = "exited"
    /\ ctxDone
    /\ \E t \in heap : t.rem = 0 /\ timer = <<t.id>>

\* the watch loop has returned without ever having armed a timer, as it does when
\* the watcher could not be created or subscribed
ExitedUntriggered == wpc = "exited" /\ burstN = 0

\* C18: when fsnotify.NewWatcher or w.Add fails, the watch loop exits at once and
\* leaves the Current Reference alone; from then on no timer is armed, no reload
\* runs, the Current Reference never changes, and Getenv resolves keys against it.
C18_FailStatic ==
    /\ [][(NewWatcher(FALSE) \/ WatchAdd(FALSE))
           => (wpc' = "exited" /\ watching' = <<>> /\ cfg' = cfg /\ burstN = 0)]_vars
    /\ [](ExitedUntriggered
          => (heap = {} /\ timer = <<>> /\ events = <<>> /\ Running = 0
              /\ lastReload = "none" /\ cfg # <<>>))
    /\ [][ExitedUntriggered
           => /\ cfg' = cfg
              /\ ExitedUntriggered'
              /\ \A c \in Callers :
                     (pc[c] = "get" /\ pc'[c] = "ret")
                     => loc'[c].ret = LookupPolicy(cfg[1].m, loc[c].key,
                                                   OsGetenv(loc[c].key),
                                                   optFallbackToProcessEnv, loc[c].def)]_vars

\* the subscription failed (the loop has exited and nothing cancelled it), the file
\* has since got A=2, and Getenv("A", "d") has answered "d" from the snapshot of
\* the initial load
C18_Witness ==
    /\ wpc = "exited"
    /\ stopOnce = "fresh"
    /\ ~ctxDone
    /\ FileAt(filePath) = FileTwo
    /\ cfg = <<ParseOf(FileOne)>>
    /\ pc["c1"] = "ret"
    /\ loc["c1"].ret = <<"d">>

(***************************************************************************)
(* The grammar of the parser, stated on its own: a two-state machine over  *)
(* the lines, written with index arithmetic in place of the string         *)
(* functions of the code.                                                  *)
(***************************************************************************)
Blanks == {" ", "\t", "\r", "\n"}

Quotes == {"'", "\""}

\* s without its leading and trailing blanks
Stripped(s) ==
    LET solid == {i \in 1..Len(s) : s[i] \notin Blanks}
    IN  IF solid = {} THEN <<>>
        ELSE SubSeq(s, CHOOSE i \in solid : \A j \in solid : i <= j,
                       CHOOSE i \in solid : \A j \in solid : i >= j)

\* the machine before any line: nothing stored, normal state
GrammarStart == [map |-> EmptyMap, open |-> FALSE, q |-> "", k |-> <<>>, acc |-> <<>>]

\* a line in normal state
GrammarNormal(g, line) ==
    LET t == Stripped(line)
        eqs == {i \in 1..Len(t) : t[i] = "="}
        e == CHOOSE i \in eqs : \A j \in eqs : i <= j
        k == Stripped(SubSeq(t, 1, e - 1))
        v == Stripped(SubSeq(t, e + 1, Len(t)))
        store(val) == [g EXCEPT !.map = [x \in DOMAIN g.map \cup {k} |->
                                            IF x = k THEN val ELSE g.map[x]]]
    IN  IF t = <<>> \/ t[1] = "#" \/ eqs = {} THEN g
        ELSE IF Len(v) >= 2 /\ v[1] \in Quotes /\ v[Len(v)] = v[1]
        THEN store(SubSeq(v, 2, Len(v) - 1))
        ELSE IF Len(v) >= 2 /\ v[1] \in Quotes
        THEN [g EXCEPT !.open = TRUE, !.q = v[1], !.k = k,
                       !.acc = SubSeq(v, 2, Len(v)) \o <<"\n">>]
        ELSE store(v)

\* a line in in-multiline state
GrammarMultiline(g, line) ==
    IF Len(line) >= 1 /\ line[Len(line)] = g.q
    THEN [g EXCEPT !.map = [x \in DOMAIN g.map \cup {g.k} |->
                               IF x = g.k THEN g.acc \o SubSeq(line, 1, Len(line) - 1)
                               ELSE g.map[x]],
                   !.open = FALSE, !.k = <<>>, !.acc = <<>>]
    ELSE [g EXCEPT !.acc = g.acc \o line \o <<"\n">>]

\* the machine after each prefix of the lines
GrammarRun(lines) ==
    LET G[i \in 0..Len(lines)] ==
            IF i = 0 THEN GrammarStart
            ELSE IF G[i - 1].open THEN GrammarMultiline(G[i - 1], lines[i])
            ELSE GrammarNormal(G[i - 1], lines[i])
    IN  G

\* C19: loadEnvFile returns the mapping the grammar defines: on a read of the
\* whole file, with no error, the mapping of all of its lines; on a read that the
\* scanner cut short, with the error, the mapping of the lines scanned.
C19_ParserGrammar ==
    \A c \in Callers :
        pc[c] = "initFinish" =>
            LET lines == FileAt(loc[c].path).lines
                G == GrammarRun(lines)
            IN  IF loc[c].res.err
                THEN \E n \in 0..(Len(lines) - 1) : loc[c].res.c.m = G[n].map
                ELSE loc[c].res.c.m = G[Len(lines)].map

\* a multi-line value was opened, continued by a line that does not close it, and
\* closed by the next
C19_Witness ==
    /\ pc["c1"] = "initFinish"
    /\ ~loc["c1"].res.err
    /\ FileAt(PathA).lines = << <<"j", "=", "\"", "a">>, <<"b", "\"", " ">>, <<"b", "\"">> >>
    /\ loc["c1"].res.c.m = (<<"j">> :> <<"a", "\n", "b", "\"", " ", "\n", "b">>)

\* the line that opened the multi-line value the input ends in
OpeningLine(G, len) ==
    CHOOSE i \in 1..len :
        /\ ~G[i - 1].open /\ G[i].open
        /\ \A j \in i..len : G[j].open

\* C20: when the input ends while a multi-line value is open, a read of the whole
\* file returns no error and the mapping as it was before the line that opened the
\* value: the accumulated value is not stored and the pending key has the value an
\* earlier assignment gave it, or none.
C20_UnterminatedDropped ==
    \A c \in Callers :
        pc[c] = "initFinish" =>
            LET file == FileAt(loc[c].path)
                len == Len(file.lines)
                G == GrammarRun(file.lines)
                before == G[OpeningLine(G, len) - 1].map
            IN  G[len].open =>
                    /\ ~Load(file, FullRead(file)).err
                    /\ ~loc[c].res.err =>
                           /\ loc[c].res.c.m = before
                           /\ MapGet(loc[c].res.c.m, G[len].k) = MapGet(before, G[len].k)

\* k was assigned, then a multi-line value for k was opened and never closed: the
\* load returned no error and k has its first value
C20_Witness ==
    /\ pc["c1"] = "initFinish"
    /\ ~loc["c1"].res.err
    /\ FileAt(PathA).lines = << <<"k", "=", "v">>, <<"k", "=", " ", "'", "a", "\"">>,
                                <<"b", "\"">> >>
    /\ loc["c1"].res.c.m = (<<"k">> :> <<"v">>)

====
